---- MODULE Spec2Model ----
(***************************************************************************)
(* Model of traffic/rdma_stress_fixture.cc: the RdmaStressFixture of the   *)
(* RDMA stress-test harness.  It covers the device-context constructor,    *)
(* SetUpRcClientsQPs (PairAndConnect), CreateSetUpRcQps                    *)
(* (CreateAndConnectN), HaltExecution (Halt) and PollAndAckAsyncEvents.    *)
(* Every method is a sequence of steps of the calling thread; pc[t] is the *)
(* position of thread t.  The provider (poll, ibv_get_async_event,         *)
(* ibv_.SetUpRcQp, Client::CreateQps, fcntl) is the environment: each of   *)
(* its outcomes is a nondeterministic choice.                              *)
(***************************************************************************)
EXTENDS Integers, Sequences, FiniteSets, TLC

\* ---------------------------------------------------------------- bounds
\* Largest number of queue pairs a client may hold in the model.
MaxQps == 2
\* Largest qps_per_client passed to CreateSetUpRcQps.
MaxBatch == 2
\* Total number of async events the provider raises in one run.
MaxEvents == 2

\* ------------------------------------------------------------- constants
Clients == {"initiator", "target"}
\* "sup" is the supervising test thread; "aux" is a second caller of
\* PollAndAckAsyncEvents (the fixture takes no lock).
Threads == {"sup", "aux"}
\* ibv_event_type tags carried by the events of the model.
EventTypes == {1, 2}
\* errno values poll() can leave behind (ENOMEM, EINVAL); EINTR is retried
\* by TEMP_FAILURE_RETRY and never surfaces.
Errnos == {12, 22}

QpIds == 0 .. (MaxQps - 1)
\* Ids a caller may pass: one more than can exist, so that an id can be out
\* of bounds whatever the client holds.
ArgIds == 0 .. MaxQps
EventIds == 1 .. MaxEvents

VARIABLES
    proc,        \* "unconstructed" | "running" | "aborted" (CHECK failure)
    nonblock,    \* O_NONBLOCK is set on context_->async_fd
    numQps,      \* Client::num_qps() of each client
    remoteQp,    \* QpState::remote_qp_state of each QpState (NoQp: null)
    asyncQueue,  \* events pending on the async event channel, oldest first
    arrived,     \* number of events the provider has raised so far
    readIds,     \* ids of the events ibv_get_async_event has handed out
    acks,        \* number of ibv_ack_async_event calls per event id
    pc,          \* position of each thread
    su,          \* frame of the running SetUpRcClientsQPs call
    cs,          \* frame of the running CreateSetUpRcQps call
    halt,        \* frame of the running HaltExecution call
    pa,          \* frame of each thread's PollAndAckAsyncEvents call
    hist,        \* bookkeeping about the calls since the last arrival
    ctor,        \* what OpenDevice and the two fcntl calls answered
    pd           \* frame of the running NewPd call

vars == <<proc, nonblock, numQps, remoteQp, asyncQueue, arrived, readIds,
          acks, pc, su, cs, halt, pa, hist, ctor, pd>>

ctxVars == <<nonblock, ctor, pd>>

pairVars == <<numQps, remoteQp, su, cs>>
eventVars == <<asyncQueue, arrived, readIds, acks, pa, hist>>

\* ---------------------------------------------------------------- values
\* A QpState is named by its owner and its index in the owner's collection.
NoQp == <<>>
GetQpState(c, id) == <<c, id>>
AllQps == {GetQpState(c, id) : c \in Clients, id \in QpIds}
Exists(q) == q[2] < numQps[q[1]]

\* absl::Status values.  src tells the two internal errors of
\* PollAndAckAsyncEvents apart; val is the errno or the event type.
Status(code, src, val) == [code |-> code, src |-> src, val |-> val]
NoStatus == Status("none", "none", 0)
OkStatus == Status("Ok", "none", 0)
InvalidArgumentError == Status("InvalidArgument", "qp_id", 0)
HandshakeError == Status("Internal", "handshake", 0)
PollError(errno) == Status("Internal", "poll", errno)
EventError(type) == Status("Internal", "event", type)
UnavailableError == Status("Unavailable", "read", 0)

NoEvent == [id |-> 0, type |-> 0]

SuIdle == [local |-> "initiator", lid |-> 0, remote |-> "initiator", rid |-> 0,
           caller |-> "none", status |-> NoStatus, handshake |-> "none"]
CsIdle == [initiator |-> "initiator", target |-> "initiator", count |-> 0,
           qps_size |-> 0, target_size |-> 0, qp_id |-> 0, failed |-> FALSE,
           calls |-> 0, createFailed |-> FALSE]
\* Outcomes of the constructor's provider calls: "none" (not called), "ok",
\* "failed".
CtorNone == [open |-> "none", getfl |-> "none", setfl |-> "none"]
\* alloc is the outcome of ibv_.AllocPd, result what NewPd returns.
PdIdle == [alloc |-> "none", result |-> "none"]
HaltIdle == [client |-> "initiator", dumps |-> [c \in Clients |-> 0],
             polled |-> FALSE, arrivals |-> FALSE, backlog |-> 0, acked |-> 0]
PaIdle == [caller |-> "none", ret |-> 0, errno |-> 0, event |-> NoEvent,
           status |-> NoStatus, reads |-> 0, acked |-> 0, arrivals |-> FALSE,
           startLen |-> 0]
HistInit == [base |-> 0, polls |-> 0, acked |-> 0]

Min(a, b) == IF a < b THEN a ELSE b

Init ==
    /\ proc = "unconstructed"
    /\ nonblock = FALSE
    /\ numQps = [c \in Clients |-> 0]
    /\ remoteQp = [q \in AllQps |-> NoQp]
    /\ asyncQueue = <<>>
    /\ arrived = 0
    /\ readIds = {}
    /\ acks = [e \in EventIds |-> 0]
    /\ pc = [t \in Threads |-> "idle"]
    /\ su = SuIdle
    /\ cs = CsIdle
    /\ halt = HaltIdle
    /\ pa = [t \in Threads |-> PaIdle]
    /\ hist = HistInit
    /\ ctor = CtorNone
    /\ pd = PdIdle

Goto(t, label) == pc' = [pc EXCEPT ![t] = label]
Ready(t) == proc = "running" /\ pc[t] = "idle"
At(t, label) == proc = "running" /\ pc[t] = label

\* ------------------------------------------------------------ constructor
\* Mutant: the mode follows F_SETFL alone, whatever F_GETFL returned.
ConstructorNonblockSetOnly(getflOk, setflOk) == setflOk

\* Lines 64-76: the channel ends up non-blocking only when F_GETFL and then
\* F_SETFL both succeed; F_SETFL is not issued after a failed F_GETFL.
ConstructorNonblock(getflOk, setflOk) == getflOk /\ setflOk

\* The record of a constructor run: F_SETFL is issued only after a
\* successful F_GETFL (the return of line 69).
CtorOutcome(openOk, getflOk, setflOk) ==
    [open  |-> IF openOk THEN "ok" ELSE "failed",
     getfl |-> IF ~openOk THEN "none" ELSE IF getflOk THEN "ok" ELSE "failed",
     setfl |-> IF ~openOk \/ ~getflOk THEN "none"
               ELSE IF setflOk THEN "ok" ELSE "failed"]

\* Lines 57-58: CHECK_OK(context.status()) aborts when no device opens;
\* nothing after it does.
ConstructorCompletes(openOk, getflOk, setflOk) == openOk

\* RdmaStressFixture::RdmaStressFixture.  CHECK_OK on OpenDevice aborts the
\* process; a failed fcntl is logged and the constructor still completes.
Constructor ==
    /\ proc = "unconstructed"
    /\ \E openOk, getflOk, setflOk \in BOOLEAN :
          /\ ctor' = CtorOutcome(openOk, getflOk, setflOk)
          /\ IF ConstructorCompletes(openOk, getflOk, setflOk)
             THEN /\ proc' = "running"
                  /\ nonblock' = ConstructorNonblock(getflOk, setflOk)
             ELSE /\ proc' = "aborted"
                  /\ UNCHANGED nonblock
    /\ UNCHANGED <<pairVars, eventVars, pc, halt, pd>>

\* -------------------------------------------------------- Client (external)
\* Client::CreateQps(1, is_rc): appends one QpState whose remote is null.
CreateQps(c) == numQps' = [numQps EXCEPT ![c] = @ + 1]

\* A test creates a queue pair on a client directly.
ClientCreateQps(t) ==
    /\ Ready(t)
    /\ \E c \in Clients :
          /\ numQps[c] < MaxQps
          /\ CreateQps(c)
    /\ UNCHANGED <<proc, ctxVars, remoteQp, su, cs, eventVars, pc, halt>>

\* ------------------------------------------------------ SetUpRcClientsQPs
\* Mutant: the bounds test off by one (> for >=).
OutOfBoundsOffByOne(local, lid, remote, rid) ==
    lid > numQps[local] \/ rid > numQps[remote]

\* Line 83: the bounds test on both ids.
OutOfBounds(local, lid, remote, rid) ==
    lid >= numQps[local] \/ rid >= numQps[remote]

\* Line 89: local_qp->set_remote_qp_state(remote_qp), on the links rq.
SetLocalRemote(rq, local, lid, remote, rid) ==
    [rq EXCEPT ![GetQpState(local, lid)] = GetQpState(remote, rid)]

\* Mutant: the remote record is linked to the remote record itself.
SetRemoteRemoteToSelf(rq, local, lid, remote, rid) ==
    [rq EXCEPT ![GetQpState(remote, rid)] = GetQpState(remote, rid)]

\* Line 90: remote_qp->set_remote_qp_state(local_qp), on the links rq.
SetRemoteRemote(rq, local, lid, remote, rid) ==
    [rq EXCEPT ![GetQpState(remote, rid)] = GetQpState(local, lid)]

\* Mutant: only the local record is linked before the handshake.
CrossLinkLocalOnly(local, lid, remote, rid) ==
    SetLocalRemote(remoteQp, local, lid, remote, rid)

\* Lines 87-90: both set_remote_qp_state calls, in program order.
CrossLink(local, lid, remote, rid) ==
    SetRemoteRemote(SetLocalRemote(remoteQp, local, lid, remote, rid),
                    local, lid, remote, rid)

\* Lines 91-98: the status of ibv_.SetUpRcQp is returned as it is.
HandshakeStatus(ok) == IF ok THEN OkStatus ELSE HandshakeError

\* Lines 79-86: entry into SetUpRcClientsQPs(local, lid, remote, rid) and
\* its bounds test, which returns InvalidArgument before anything else.
EnterSetUp(t, local, lid, remote, rid, caller) ==
    IF OutOfBounds(local, lid, remote, rid)
    THEN /\ su' = [local |-> local, lid |-> lid, remote |-> remote,
                   rid |-> rid, caller |-> caller,
                   status |-> InvalidArgumentError, handshake |-> "none"]
         /\ Goto(t, "su_ret")
    ELSE /\ su' = [local |-> local, lid |-> lid, remote |-> remote,
                   rid |-> rid, caller |-> caller,
                   status |-> NoStatus, handshake |-> "none"]
         /\ Goto(t, "su_link")

\* A test calls SetUpRcClientsQPs with any clients and any ids.
CallSetUpRcClientsQPs(t) ==
    /\ Ready(t)
    /\ \E local, remote \in Clients, lid, rid \in ArgIds :
          EnterSetUp(t, local, lid, remote, rid, "top")
    /\ UNCHANGED <<proc, ctxVars, numQps, remoteQp, cs, eventVars, halt>>

\* Lines 87-90.
SuLink(t) ==
    /\ At(t, "su_link")
    /\ remoteQp' = CrossLink(su.local, su.lid, su.remote, su.rid)
    /\ Goto(t, "su_handshake")
    /\ UNCHANGED <<proc, ctxVars, numQps, su, cs, eventVars, halt>>

\* Lines 91-98: ibv_.SetUpRcQp succeeds or fails; nothing is undone.
SuHandshake(t) ==
    /\ At(t, "su_handshake")
    /\ \E ok \in BOOLEAN :
          su' = [su EXCEPT !.handshake = IF ok THEN "ok" ELSE "failed",
                           !.status = HandshakeStatus(ok)]
    /\ Goto(t, "su_ret")
    /\ UNCHANGED <<proc, ctxVars, numQps, remoteQp, cs, eventVars, halt>>

\* EXPECT_OK at lines 109-110: a failed status is recorded, nothing else.
ExpectOk(failed, status) == failed \/ status # OkStatus

\* Mutant: a failed pairing ends CreateSetUpRcQps (ASSERT_OK for EXPECT_OK).
AfterPairingStopsOnFailure(status, next) ==
    IF status = OkStatus THEN next ELSE "cs_ret"

\* EXPECT_OK at lines 109-110 is not fatal: whatever the status, the next
\* statement of the loop runs.
AfterPairing(status, next) == next

\* The return of SetUpRcClientsQPs: to the test, or into the loop of
\* CreateSetUpRcQps, which goes on whatever the status.
SuReturn(t) ==
    /\ At(t, "su_ret")
    /\ CASE su.caller = "top" ->
              /\ Goto(t, "idle")
              /\ UNCHANGED cs
         [] su.caller = "cs1" ->
              /\ Goto(t, AfterPairing(su.status, "cs_pair2"))
              /\ cs' = [cs EXCEPT !.failed = ExpectOk(@, su.status)]
         [] su.caller = "cs2" ->
              /\ Goto(t, AfterPairing(su.status, "cs_loop"))
              /\ cs' = [cs EXCEPT !.failed = ExpectOk(@, su.status),
                                  !.qp_id = @ + 1]
    /\ su' = SuIdle
    /\ UNCHANGED <<proc, ctxVars, numQps, remoteQp, eventVars, halt>>

\* ------------------------------------------------------- CreateSetUpRcQps
\* Queue pairs one loop iteration adds to a client (two when initiator and
\* target are the same object).
PerIteration(initiator, target, c) ==
    (IF c = initiator THEN 1 ELSE 0) + (IF c = target THEN 1 ELSE 0)

\* Line 105: the loop starts at qp_id = qps_size.
\* Mutant: the loop starts one past the first new index.
FirstQpIdOffByOne(qps_size) == qps_size + 1

\* Line 105: uint32_t qp_id = qps_size.
FirstQpId(qps_size) == qps_size

\* Lines 103-104.  DCHECK_EQ aborts a debug build when the counts differ and
\* is compiled out of a release build.
CallCreateSetUpRcQps(t) ==
    /\ Ready(t)
    /\ \E initiator, target \in Clients, count \in 0 .. MaxBatch :
          /\ \A c \in {initiator, target} :
                numQps[c] + count * PerIteration(initiator, target, c) <= MaxQps
          /\ \/ /\ numQps[initiator] # numQps[target]
                /\ proc' = "aborted"
                /\ UNCHANGED <<cs, pc>>
             \/ /\ cs' = [initiator |-> initiator, target |-> target,
                          count |-> count, qps_size |-> numQps[initiator],
                          target_size |-> numQps[target],
                          qp_id |-> FirstQpId(numQps[initiator]),
                          failed |-> FALSE, calls |-> 0,
                          createFailed |-> FALSE]
                /\ Goto(t, "cs_loop")
                /\ UNCHANGED proc
    /\ UNCHANGED <<ctxVars, numQps, remoteQp, su, eventVars, halt>>

\* Mutant: the loop runs once more (<= for <).
LoopContinuesInclusive(qp_id, qps_size, count) == qp_id <= qps_size + count

\* Line 105: qp_id < qps_size + qps_per_client.
LoopContinues(qp_id, qps_size, count) == qp_id < qps_size + count

\* Line 105: the loop test.
CsLoop(t) ==
    /\ At(t, "cs_loop")
    /\ IF LoopContinues(cs.qp_id, cs.qps_size, cs.count)
       THEN Goto(t, "cs_create_initiator")
       ELSE Goto(t, "cs_ret")
    /\ UNCHANGED <<proc, ctxVars, pairVars, eventVars, halt>>

\* Mutant: a failed creation is only recorded (EXPECT_OK for CHECK_OK) and
\* the loop goes on.
CheckOkNotFatal(t, next) ==
    /\ Goto(t, next)
    /\ UNCHANGED proc

\* CHECK_OK at lines 106-107 on a failed status: the process aborts where
\* it is.
CheckOkFails(t, next) ==
    /\ proc' = "aborted"
    /\ UNCHANGED pc

\* Line 106: CHECK_OK(initiator.CreateQps(1, true)).
CsCreateInitiator(t) ==
    /\ At(t, "cs_create_initiator")
    /\ \E ok \in BOOLEAN :
          IF ok
          THEN /\ CreateQps(cs.initiator)
               /\ Goto(t, "cs_create_target")
               /\ UNCHANGED <<proc, cs>>
          ELSE /\ CheckOkFails(t, "cs_create_target")
               /\ cs' = [cs EXCEPT !.createFailed = TRUE]
               /\ UNCHANGED numQps
    /\ UNCHANGED <<ctxVars, remoteQp, su, eventVars, halt>>

\* Line 107: CHECK_OK(target.CreateQps(1, true)).
CsCreateTarget(t) ==
    /\ At(t, "cs_create_target")
    /\ \E ok \in BOOLEAN :
          IF ok
          THEN /\ CreateQps(cs.target)
               /\ Goto(t, "cs_pair1")
               /\ UNCHANGED <<proc, cs>>
          ELSE /\ CheckOkFails(t, "cs_pair1")
               /\ cs' = [cs EXCEPT !.createFailed = TRUE]
               /\ UNCHANGED numQps
    /\ UNCHANGED <<ctxVars, remoteQp, su, eventVars, halt>>

\* Line 109: SetUpRcClientsQPs(&initiator, qp_id, &target, qp_id).
CsPair1(t) ==
    /\ At(t, "cs_pair1")
    /\ EnterSetUp(t, cs.initiator, cs.qp_id, cs.target, cs.qp_id, "cs1")
    /\ cs' = [cs EXCEPT !.calls = @ + 1]
    /\ UNCHANGED <<proc, ctxVars, numQps, remoteQp, eventVars, halt>>

\* Line 110: SetUpRcClientsQPs(&target, qp_id, &initiator, qp_id).
CsPair2(t) ==
    /\ At(t, "cs_pair2")
    /\ EnterSetUp(t, cs.target, cs.qp_id, cs.initiator, cs.qp_id, "cs2")
    /\ cs' = [cs EXCEPT !.calls = @ + 1]
    /\ UNCHANGED <<proc, ctxVars, numQps, remoteQp, eventVars, halt>>

\* Lines 112-115: the closing log line and the return.
CsReturn(t) ==
    /\ At(t, "cs_ret")
    /\ cs' = CsIdle
    /\ Goto(t, "idle")
    /\ UNCHANGED <<proc, ctxVars, numQps, remoteQp, su, eventVars, halt>>

\* ---------------------------------------------------- the event channel
PaLabels == {"pa_poll", "pa_read", "pa_ack", "pa_ret"}
HaltLabels == {"h_dump", "h_poll", "h_test", "h_ret"}
InHalt(t) ==
    pc[t] \in HaltLabels \/ (pc[t] \in PaLabels /\ pa[t].caller = "halt")

\* The provider raises an async event: it is queued on the channel.  The
\* calls in progress are marked, and the count of calls since the last
\* arrival starts again.
AsyncEventArrives ==
    /\ proc = "running"
    /\ arrived < MaxEvents
    /\ \E type \in EventTypes :
          asyncQueue' = Append(asyncQueue, [id |-> arrived + 1, type |-> type])
    /\ arrived' = arrived + 1
    /\ pa' = [t \in Threads |->
                IF pc[t] \in PaLabels THEN [pa[t] EXCEPT !.arrivals = TRUE]
                                      ELSE pa[t]]
    /\ halt' = IF InHalt("sup") THEN [halt EXCEPT !.arrivals = TRUE] ELSE halt
    /\ hist' = [base |-> Len(asyncQueue) + 1, polls |-> 0, acked |-> 0]
    /\ UNCHANGED <<proc, ctxVars, pairVars, readIds, acks, pc>>

\* -------------------------------------------------- PollAndAckAsyncEvents
\* Lines 130-135: entry into PollAndAckAsyncEvents.
EnterPoll(t, caller) ==
    /\ pa' = [pa EXCEPT ![t] = [PaIdle EXCEPT !.caller = caller,
                                              !.startLen = Len(asyncQueue)]]
    /\ hist' = IF hist.polls = 0
               THEN [base |-> Len(asyncQueue), polls |-> 0, acked |-> 0]
               ELSE hist
    /\ Goto(t, "pa_poll")

\* A test (or a second thread) calls PollAndAckAsyncEvents.
CallPollAndAckAsyncEvents(t) ==
    /\ Ready(t)
    /\ EnterPoll(t, "top")
    /\ UNCHANGED <<proc, ctxVars, pairVars, asyncQueue, arrived, readIds,
                   acks, halt>>

\* The return statement: the status is fixed and the call is counted
\* unless an event arrived while it ran.
ReturnStatus(t, frame, status) ==
    /\ pa' = [pa EXCEPT ![t] = [frame EXCEPT !.status = status]]
    /\ hist' = IF frame.arrivals
               THEN hist
               ELSE [hist EXCEPT !.polls = Min(@ + 1, hist.base + 2),
                                 !.acked = @ + frame.acked]
    /\ Goto(t, "pa_ret")

\* Line 136: poll() with a zero timeout reports the number of ready
\* descriptors: one when an event is queued, none otherwise.
PollReady(queue) == IF Len(queue) = 0 THEN 0 ELSE 1

\* Mutant: a failed poll() is not told from a ready descriptor.
PollBranchNoErrorTest(t, ret, errno) ==
    LET frame == [pa[t] EXCEPT !.ret = ret, !.errno = errno] IN
    CASE ret = 0 -> ReturnStatus(t, frame, OkStatus)
      [] OTHER   -> /\ pa' = [pa EXCEPT ![t] = frame]
                    /\ Goto(t, "pa_read")
                    /\ UNCHANGED hist

\* Mutant: only a failed poll() returns early; no event ready goes on to
\* the read.
PollBranchNoEmptyTest(t, ret, errno) ==
    LET frame == [pa[t] EXCEPT !.ret = ret, !.errno = errno] IN
    CASE ret < 0 -> ReturnStatus(t, frame, PollError(errno))
      [] OTHER   -> /\ pa' = [pa EXCEPT ![t] = frame]
                    /\ Goto(t, "pa_read")
                    /\ UNCHANGED hist

\* Lines 137-144: the two early returns after poll().
PollBranch(t, ret, errno) ==
    LET frame == [pa[t] EXCEPT !.ret = ret, !.errno = errno] IN
    CASE ret = 0 -> ReturnStatus(t, frame, OkStatus)
      [] ret < 0 -> ReturnStatus(t, frame, PollError(errno))
      [] OTHER   -> /\ pa' = [pa EXCEPT ![t] = frame]
                    /\ Goto(t, "pa_read")
                    /\ UNCHANGED hist

\* Lines 136-144: poll() answers, or fails with an errno.
PaPoll(t) ==
    /\ At(t, "pa_poll")
    /\ \/ PollBranch(t, PollReady(asyncQueue), 0)
       \/ \E errno \in Errnos : PollBranch(t, -1, errno)
    /\ UNCHANGED <<proc, ctxVars, pairVars, asyncQueue, arrived, readIds,
                   acks, halt>>

\* Mutant: a read that found nothing is reported as success.
ReadFailureOk == OkStatus

\* Lines 149-151: the status returned when ibv_get_async_event fails.
ReadFailureStatus == UnavailableError

\* Lines 147-151: ibv_get_async_event takes the oldest event.  On an empty
\* channel it fails at once in non-blocking mode (the unavailable result)
\* and waits for an event in blocking mode.
PaRead(t) ==
    /\ At(t, "pa_read")
    /\ IF asyncQueue # <<>>
       THEN /\ pa' = [pa EXCEPT ![t].event = Head(asyncQueue),
                                ![t].reads = @ + 1]
            /\ asyncQueue' = Tail(asyncQueue)
            /\ readIds' = readIds \cup {Head(asyncQueue).id}
            /\ Goto(t, "pa_ack")
            /\ UNCHANGED hist
       ELSE /\ nonblock
            /\ ReturnStatus(t, pa[t], ReadFailureStatus)
            /\ UNCHANGED <<asyncQueue, readIds>>
    /\ UNCHANGED <<proc, ctxVars, pairVars, arrived, acks, halt>>

\* Mutant: the event is not acknowledged.
AckAsyncEventSkipped(counts, event) == counts

\* Mutant: the event is acknowledged twice.
AckAsyncEventTwice(counts, event) == [counts EXCEPT ![event.id] = @ + 2]

\* Line 157: ibv_ack_async_event(&event).
AckAsyncEvent(counts, event) == [counts EXCEPT ![event.id] = @ + 1]

\* Lines 153-158: the error naming the event type is built, the event is
\* acknowledged, the error is returned.
PaAck(t) ==
    /\ At(t, "pa_ack")
    /\ acks' = AckAsyncEvent(acks, pa[t].event)
    /\ ReturnStatus(t, [pa[t] EXCEPT !.acked = @ + 1],
                    EventError(pa[t].event.type))
    /\ halt' = IF pa[t].caller = "halt"
               THEN [halt EXCEPT !.acked = @ + 1] ELSE halt
    /\ UNCHANGED <<proc, ctxVars, pairVars, asyncQueue, arrived, readIds>>

\* The caller gets the status: the test, or the loop of HaltExecution.
PaReturn(t) ==
    /\ At(t, "pa_ret")
    /\ IF pa[t].caller = "halt"
       THEN /\ Goto(t, "h_test")
            /\ UNCHANGED pa
       ELSE /\ Goto(t, "idle")
            /\ pa' = [pa EXCEPT ![t] = PaIdle]
    /\ UNCHANGED <<proc, ctxVars, pairVars, asyncQueue, arrived, readIds,
                   acks, hist, halt>>

PollNext(t) ==
    \/ CallPollAndAckAsyncEvents(t)
    \/ PaPoll(t)
    \/ PaRead(t)
    \/ PaAck(t)
    \/ PaReturn(t)

\* ---------------------------------------------------------- HaltExecution
\* A test calls HaltExecution(initiator) on one of its clients.
CallHaltExecution(t) ==
    /\ Ready(t)
    /\ \E client \in Clients :
          halt' = [HaltIdle EXCEPT !.client = client,
                                   !.backlog = Len(asyncQueue)]
    /\ Goto(t, "h_dump")
    /\ UNCHANGED <<proc, ctxVars, pairVars, eventVars>>

\* Line 119: initiator.DumpPendingOps().
DumpPendingOps(dumps, client) == [dumps EXCEPT ![client] = @ + 1]

HDump(t) ==
    /\ At(t, "h_dump")
    /\ halt' = [halt EXCEPT !.dumps = DumpPendingOps(@, halt.client)]
    /\ Goto(t, "h_poll")
    /\ UNCHANGED <<proc, ctxVars, pairVars, eventVars>>

\* Line 124: the call of PollAndAckAsyncEvents in the loop.
HPoll(t) ==
    /\ At(t, "h_poll")
    /\ EnterPoll(t, "halt")
    /\ halt' = [halt EXCEPT !.polled = TRUE]
    /\ UNCHANGED <<proc, ctxVars, pairVars, asyncQueue, arrived, readIds,
                   acks>>

\* Mutant: the loop is entered again at the dump.
LoopHeadAtDump == "h_dump"

\* Line 123: while (true) starts at the poll, after the dump of line 119.
LoopHead == "h_poll"

\* Mutant: the loop ends after its first poll, whatever it returned.
HaltBreaksOnAnyStatus(status) == TRUE

\* Mutant: only a drained event makes the loop go on.
HaltBreaksUnlessEvent(status) == status.src # "event"

\* Mutant: the test of the status is inverted.
HaltBreaksOnError(status) == status # OkStatus

\* Line 125: the loop ends on an ok status and on nothing else.
HaltBreaks(status) == status = OkStatus

\* Lines 125-126: break, or log the message and poll again.
HTest(t) ==
    /\ At(t, "h_test")
    /\ IF HaltBreaks(pa[t].status)
       THEN Goto(t, "h_ret")
       ELSE Goto(t, LoopHead)
    /\ pa' = [pa EXCEPT ![t] = PaIdle]
    /\ UNCHANGED <<proc, ctxVars, pairVars, asyncQueue, arrived, readIds,
                   acks, hist, halt>>

\* Line 128: HaltExecution returns.
HReturn(t) ==
    /\ At(t, "h_ret")
    /\ halt' = HaltIdle
    /\ Goto(t, "idle")
    /\ UNCHANGED <<proc, ctxVars, pairVars, eventVars>>

HaltNext(t) ==
    \/ CallHaltExecution(t)
    \/ HDump(t)
    \/ HPoll(t)
    \/ HTest(t)
    \/ HReturn(t)

\* ------------------------------------------------------------------ NewPd
NullPd == "null"

\* Mutant: the pointer is dropped and a null one handed back.
NewPdResultDropped(allocated) == NullPd

\* What NewPd hands back: the pointer ibv_.AllocPd returned (line 177).
NewPdResult(allocated) == allocated

\* VerbsHelperSuite::AllocPd: a protection domain of the context, or the
\* end of the process when the provider cannot allocate one.
AllocPd(t, ok) ==
    IF ok
    THEN /\ pd' = [alloc |-> "ok", result |-> NewPdResult("pd")]
         /\ Goto(t, "np_ret")
         /\ UNCHANGED proc
    ELSE /\ pd' = [alloc |-> "failed", result |-> "none"]
         /\ proc' = "aborted"
         /\ UNCHANGED pc

\* Line 177: NewPd calls ibv_.AllocPd(context_).
CallNewPd(t) ==
    /\ Ready(t)
    /\ \E ok \in BOOLEAN : AllocPd(t, ok)
    /\ UNCHANGED <<nonblock, ctor, pairVars, eventVars, halt>>

\* Line 177: the return of NewPd.
NpReturn(t) ==
    /\ At(t, "np_ret")
    /\ pd' = PdIdle
    /\ Goto(t, "idle")
    /\ UNCHANGED <<proc, nonblock, ctor, pairVars, eventVars, halt>>

NewPdNext(t) == CallNewPd(t) \/ NpReturn(t)

PairNext(t) ==
    \/ ClientCreateQps(t)
    \/ CallSetUpRcClientsQPs(t)
    \/ SuLink(t)
    \/ SuHandshake(t)
    \/ SuReturn(t)
    \/ CallCreateSetUpRcQps(t)
    \/ CsLoop(t)
    \/ CsCreateInitiator(t)
    \/ CsCreateTarget(t)
    \/ CsPair1(t)
    \/ CsPair2(t)
    \/ CsReturn(t)

\* The fixture as the pairing coordinator finds it: constructed, with the
\* event channel in non-blocking mode (the pairing code never reads it).
Constructed(nb) ==
    /\ proc = "running"
    /\ nonblock = nb
    /\ numQps = [c \in Clients |-> 0]
    /\ remoteQp = [q \in AllQps |-> NoQp]
    /\ asyncQueue = <<>>
    /\ arrived = 0
    /\ readIds = {}
    /\ acks = [e \in EventIds |-> 0]
    /\ pc = [t \in Threads |-> "idle"]
    /\ su = SuIdle
    /\ cs = CsIdle
    /\ halt = HaltIdle
    /\ pa = [t \in Threads |-> PaIdle]
    /\ hist = HistInit
    /\ ctor = IF nb THEN CtorOutcome(TRUE, TRUE, TRUE)
                    ELSE CtorOutcome(TRUE, FALSE, FALSE)
    /\ pd = PdIdle

PairInit == Constructed(TRUE)

PairSpec == PairInit /\ [][PairNext("sup")]_vars

\* The fixture as the fault monitor finds it: constructed, with the channel
\* in either mode the constructor can leave it in, and no event queued yet.
MonInit == \E nb \in BOOLEAN : Constructed(nb)

MonNext == AsyncEventArrives \/ PollNext("sup") \/ HaltNext("sup")

MonSpec == MonInit /\ [][MonNext]_vars

\* The supervising thread is always scheduled again; nothing is assumed of
\* the provider, which may raise events or fail poll() at any time.
MonFairSpec == MonSpec /\ WF_vars(PollNext("sup") \/ HaltNext("sup"))

\* Two threads on the one event channel: the supervising thread polls or
\* halts while an auxiliary thread polls.
MTNext ==
    \/ AsyncEventArrives
    \/ PollNext("sup")
    \/ HaltNext("sup")
    \/ PollNext("aux")

MTSpec == MonInit /\ [][MTNext]_vars

\* The batch helper with the calls it makes, without pairings of the
\* test's own choosing.
BatchNext(t) ==
    \/ SuLink(t)
    \/ SuHandshake(t)
    \/ SuReturn(t)
    \/ CallCreateSetUpRcQps(t)
    \/ CsLoop(t)
    \/ CsCreateInitiator(t)
    \/ CsCreateTarget(t)
    \/ CsPair1(t)
    \/ CsPair2(t)
    \/ CsReturn(t)

\* The life of one fixture from its construction on: batches of queue
\* pairs, protection domains, polling and the halt.
LifeNext ==
    \/ Constructor
    \/ AsyncEventArrives
    \/ BatchNext("sup")
    \/ NewPdNext("sup")
    \/ PollNext("sup")
    \/ HaltNext("sup")

LifeSpec == Init /\ [][LifeNext]_vars

\* The whole fixture, from construction on.
Next ==
    \/ Constructor
    \/ AsyncEventArrives
    \/ PairNext("sup")
    \/ NewPdNext("sup")
    \/ PollNext("sup")
    \/ HaltNext("sup")

Spec == Init /\ [][Next]_vars

\* ================================================================ claims
SuLabels == {"su_link", "su_handshake", "su_ret"}
LocalQp == GetQpState(su.local, su.lid)
RemoteQp == GetQpState(su.remote, su.rid)
InBoundsCall == su.lid < numQps[su.local] /\ su.rid < numQps[su.remote]
Linked(a, b) == remoteQp[a] = b /\ remoteQp[b] = a

\* C1: when SetUpRcClientsQPs returns from a call whose two ids are below
\* the QP counts of their clients, the local QpState's remote is the remote
\* QpState and the remote QpState's remote is the local QpState.
C1_SymmetricAfterPairing ==
    (pc["sup"] = "su_ret" /\ InBoundsCall) => Linked(LocalQp, RemoteQp)

\* C1 witness: a call pairing two different QpStates has returned ok.
C1_Witness ==
    /\ pc["sup"] = "su_ret"
    /\ InBoundsCall
    /\ LocalQp # RemoteQp
    /\ su.status = OkStatus

\* C2: a call with an id at or above its client's QP count goes straight to
\* its return with the invalid-argument status: no remote reference and no
\* QP count changes, no handshake is attempted, and the return changes
\* nothing either.
C2_OutOfBoundsChangesNothing ==
    [][/\ (/\ pc["sup"] \notin SuLabels
           /\ pc'["sup"] \in SuLabels
           /\ (su'.lid >= numQps[su'.local] \/ su'.rid >= numQps[su'.remote]))
          => /\ pc'["sup"] = "su_ret"
             /\ su'.status = InvalidArgumentError
             /\ su'.handshake = "none"
             /\ remoteQp' = remoteQp
             /\ numQps' = numQps
       /\ pc["sup"] = "su_ret" => (remoteQp' = remoteQp /\ numQps' = numQps)
      ]_vars

\* C2 witness: an out-of-bounds call has returned invalid-argument while
\* some QpState was already paired.
C2_Witness ==
    /\ pc["sup"] = "su_ret"
    /\ ~InBoundsCall
    /\ su.status = InvalidArgumentError
    /\ \E q \in AllQps : remoteQp[q] # NoQp

\* C6: CreateSetUpRcQps on two clients that both held n QPs, with no failed
\* pairing, ends with n + k QPs on each, and for every i in [n, n + k) the
\* initiator's QP i and the target's QP i are each other's remote.
C6_CreateSetUpPairsNewQps ==
    (/\ pc["sup"] = "cs_ret"
     /\ cs.initiator # cs.target
     /\ cs.target_size = cs.qps_size
     /\ ~cs.failed)
    => /\ numQps[cs.initiator] = cs.qps_size + cs.count
       /\ numQps[cs.target] = cs.qps_size + cs.count
       /\ \A i \in cs.qps_size .. (cs.qps_size + cs.count - 1) :
             Linked(GetQpState(cs.initiator, i), GetQpState(cs.target, i))

\* C6 witness: a call that added two QPs to each of two clients has ended
\* without a failed pairing.
C6_Witness ==
    /\ pc["sup"] = "cs_ret"
    /\ cs.initiator # cs.target
    /\ cs.target_size = cs.qps_size
    /\ ~cs.failed
    /\ cs.count = 2

\* C8: between calls, every QpState q whose remote is r has r's remote
\* equal to q (symmetric linkage in every state, re-pairing included).
C8_SymmetricLinkageAlways ==
    pc["sup"] = "idle" =>
        \A q \in AllQps : remoteQp[q] # NoQp => remoteQp[remoteQp[q]] = q

\* C10: when the handshake is about to be attempted both remote references
\* are already set, and a call whose handshake failed returns that failure
\* with both references still set.
C10_LinkedBeforeHandshake ==
    /\ pc["sup"] = "su_handshake"
          => (su.handshake = "none" /\ Linked(LocalQp, RemoteQp))
    /\ (pc["sup"] = "su_ret" /\ su.handshake # "none") => InBoundsCall
    /\ (pc["sup"] = "su_ret" /\ su.handshake = "failed")
          => (su.status = HandshakeError /\ Linked(LocalQp, RemoteQp))

\* C10 witness: a call between two different QpStates has returned the
\* failure of its handshake.
C10_Witness ==
    /\ pc["sup"] = "su_ret"
    /\ su.handshake = "failed"
    /\ LocalQp # RemoteQp

\* C11: a failed pairing does not end the loop of CreateSetUpRcQps.  Every
\* index gets its two SetUpRcClientsQPs calls whatever the earlier ones
\* returned, so a completed call has made 2k of them, and two different
\* clients end with k QPs more each.
C11_FailedPairingDoesNotStopLoop ==
    /\ pc["sup"] = "cs_loop" => cs.calls = 2 * (cs.qp_id - cs.qps_size)
    /\ pc["sup"] = "cs_pair2" => cs.calls = 2 * (cs.qp_id - cs.qps_size) + 1
    /\ pc["sup"] = "cs_ret" =>
          /\ cs.qp_id = cs.qps_size + cs.count
          /\ cs.calls = 2 * cs.count
          /\ cs.initiator # cs.target =>
                /\ numQps[cs.initiator] = cs.qps_size + cs.count
                /\ numQps[cs.target] = cs.target_size + cs.count

\* C11 witness: a call for two QPs on each of two clients has ended with a
\* failed pairing among its four.
C11_Witness ==
    /\ pc["sup"] = "cs_ret"
    /\ cs.failed
    /\ cs.count = 2
    /\ cs.calls = 4
    /\ cs.initiator # cs.target

\* C16: when a CreateQps of the loop fails the process is aborted at that
\* statement: the thread stays there, no SetUpRcClientsQPs call is in
\* progress or made for that index (the calls made are the two of each
\* earlier index), and CreateSetUpRcQps does not reach its return.
C16_CreateFailureAborts ==
    cs.createFailed =>
        /\ proc = "aborted"
        /\ pc["sup"] \in {"cs_create_initiator", "cs_create_target"}
        /\ su = SuIdle
        /\ cs.calls = 2 * (cs.qp_id - cs.qps_size)
        /\ cs.qp_id < cs.qps_size + cs.count

\* C16 witness: the target's CreateQps failed at the second index of a
\* call, after the initiator's had succeeded.
C16_Witness ==
    /\ cs.createFailed
    /\ pc["sup"] = "cs_create_target"
    /\ cs.qp_id = cs.qps_size + 1
    /\ cs.initiator # cs.target

\* C20: in a CreateSetUpRcQps call begun with equal QP counts, every
\* SetUpRcClientsQPs call it makes has both ids below the counts of their
\* clients, and none returns the invalid-argument status.
C20_BatchCallsInBounds ==
    (/\ pc["sup"] \in SuLabels
     /\ su.caller \in {"cs1", "cs2"}
     /\ cs.target_size = cs.qps_size)
    => /\ su.lid < numQps[su.local]
       /\ su.rid < numQps[su.remote]
       /\ su.status # InvalidArgumentError

\* C20 witness: the second pairing of the second index of such a call has
\* returned ok.
C20_Witness ==
    /\ pc["sup"] = "su_ret"
    /\ su.caller = "cs2"
    /\ su.status = OkStatus
    /\ cs.target_size = cs.qps_size
    /\ cs.qp_id = cs.qps_size + 1
    /\ cs.initiator # cs.target

\* ------------------------------------------------------ the fault monitor
Returned == pc["sup"] = "pa_ret"
Call == pa["sup"]
QueuedIds == {asyncQueue[i].id : i \in 1 .. Len(asyncQueue)}
\* Every event taken off the channel has one acknowledgment, every other
\* event has none.
DrainedAckedOnce ==
    \A id \in EventIds :
        acks[id] = IF id <= arrived /\ id \notin QueuedIds THEN 1 ELSE 0

\* C3 as stated: with N events queued and no arrival since, the k-th call
\* (k <= N) returns a non-success result having acknowledged exactly one
\* event, and call N + 1 returns success; no call removes more than one.
C3_EachOfFirstNCallsAcks ==
    (Returned /\ ~Call.arrivals) =>
        /\ Call.startLen - Len(asyncQueue) \in {0, 1}
        /\ hist.polls <= hist.base =>
              /\ Call.status # OkStatus
              /\ Call.acked = 1
              /\ Len(asyncQueue) = hist.base - hist.polls
        /\ hist.polls = hist.base + 1 => Call.status = OkStatus

\* C3 amended: with N events queued and no arrival since, a call removes at
\* most one event; a call whose poll() does not fail while events remain
\* returns the event's error having acknowledged exactly one event; a call
\* whose poll() fails acknowledges nothing; success is returned only on an
\* empty queue, after exactly N calls that acknowledged one event each; and
\* every drained event has been acknowledged exactly once.
C3_DrainTakesNAckingCalls ==
    (Returned /\ ~Call.arrivals) =>
        /\ Call.startLen - Len(asyncQueue) = Call.acked
        /\ Call.acked \in {0, 1}
        /\ (Call.ret >= 0 /\ Call.startLen > 0) =>
              (Call.acked = 1 /\ Call.status = EventError(Call.event.type))
        /\ Call.ret < 0 => (Call.acked = 0 /\ Call.status # OkStatus)
        /\ Call.status = OkStatus =>
              /\ asyncQueue = <<>>
              /\ hist.acked = hist.base
              /\ hist.polls >= hist.base + 1
        /\ hist.acked + Len(asyncQueue) = hist.base
        /\ DrainedAckedOnce

\* C3 witness: a backlog of two events has been drained by two calls and
\* the next call has returned success.
C3_Witness ==
    /\ Returned
    /\ ~Call.arrivals
    /\ Call.status = OkStatus
    /\ hist.base = 2
    /\ hist.acked = 2

\* C4: a call whose poll() reported no ready event returns success without
\* reading or acknowledging anything, and the queue is as it was (empty).
C4_NoEventReturnsOk ==
    /\ (Returned /\ Call.ret = 0) =>
          /\ Call.status = OkStatus
          /\ Call.reads = 0
          /\ Call.acked = 0
          /\ Call.event = NoEvent
          /\ ~Call.arrivals => (asyncQueue = <<>> /\ Call.startLen = 0)
    /\ (Returned /\ ~Call.arrivals /\ Call.startLen = 0 /\ Call.ret >= 0) =>
          Call.ret = 0

\* C4 witness: a call on a channel with no event has returned success after
\* earlier events had been drained.
C4_Witness ==
    /\ Returned
    /\ Call.ret = 0
    /\ Call.status = OkStatus
    /\ ~Call.arrivals
    /\ arrived > 0

\* C7: whenever PollAndAckAsyncEvents returns, the events it read were
\* acknowledged in this call, once each; no event has two acknowledgments,
\* none is acknowledged unread, none read is left unacknowledged.
C7_ReadEventsAckedOnce ==
    Returned =>
        /\ Call.acked = Call.reads
        /\ Call.reads = 1 => acks[Call.event.id] = 1
        /\ \A id \in EventIds :
              /\ acks[id] <= 1
              /\ acks[id] = 1 <=> id \in readIds

\* C7 witness: a call that read an event has returned.
C7_Witness == Returned /\ Call.reads = 1

\* C9: a call whose poll() failed returns the internal error carrying the
\* errno, having read and acknowledged nothing; the queue is as it was.
C9_PollFailureReturnsErrno ==
    (Returned /\ Call.ret < 0) =>
        /\ Call.errno \in Errnos
        /\ Call.status = [code |-> "Internal", src |-> "poll",
                          val |-> Call.errno]
        /\ Call.reads = 0
        /\ Call.acked = 0
        /\ Call.event = NoEvent
        /\ ~Call.arrivals => Len(asyncQueue) = Call.startLen

\* C9 witness: poll() has failed while an event was queued.
C9_Witness ==
    /\ Returned
    /\ Call.ret < 0
    /\ asyncQueue # <<>>
    /\ ~Call.arrivals

\* ---------------------------------------------------------------- Halt
HaltStarted == pc["sup"] = "h_dump"
HaltReturned == pc["sup"] = "h_ret"
OneDump ==
    HaltReturned =>
        halt.dumps = [c \in Clients |-> IF c = halt.client THEN 1 ELSE 0]
PollFailed == Returned /\ Call.ret < 0

\* C5 as stated: every HaltExecution call returns, having dumped the
\* client's pending operations exactly once.
C5_HaltAlwaysReturns == []OneDump /\ (HaltStarted ~> HaltReturned)

\* C5 amended: every HaltExecution call dumps the client's pending
\* operations exactly once, and it returns unless poll() keeps failing
\* for ever.
C5_HaltReturnsUnlessPollKeepsFailing ==
    /\ []OneDump
    /\ <>[](~PollFailed) => (HaltStarted ~> HaltReturned)

\* C5 witness: a HaltExecution call that started with two events queued
\* has returned.
C5_Witness ==
    /\ HaltReturned
    /\ halt.backlog = 2
    /\ ~halt.arrivals

\* C12: within one HaltExecution call the dump comes first: nothing of the
\* call has polled, read or acknowledged before it, and from the dump to
\* the return the client has been dumped once and no other client at all.
C12_DumpBeforeChannelAndOnce ==
    /\ pc["sup"] = "h_dump" =>
          /\ ~halt.polled
          /\ halt.acked = 0
          /\ halt.dumps = [c \in Clients |-> 0]
    /\ (InHalt("sup") /\ pc["sup"] # "h_dump") =>
          halt.dumps = [c \in Clients |-> IF c = halt.client THEN 1 ELSE 0]
    /\ (pc["sup"] \in PaLabels /\ pa["sup"].caller = "halt") => halt.polled

\* C12 witness: the loop is at its second poll, one event drained.
C12_Witness ==
    /\ pc["sup"] = "h_poll"
    /\ halt.polled
    /\ halt.acked = 1

\* C13: when HaltExecution returns from a call that began with N events
\* queued and saw no arrival, the queue is empty, the call acknowledged N
\* events, and every event that ever arrived has been read and has exactly
\* one acknowledgment.
C13_HaltLeavesQueueDrained ==
    (HaltReturned /\ ~halt.arrivals) =>
        /\ asyncQueue = <<>>
        /\ halt.acked = halt.backlog
        /\ \A id \in EventIds :
              /\ id <= arrived => (acks[id] = 1 /\ id \in readIds)
              /\ id > arrived => acks[id] = 0

\* C13 witness: a call that began with two events queued has returned
\* with both acknowledged.
C13_Witness ==
    /\ HaltReturned
    /\ ~halt.arrivals
    /\ halt.backlog = 2
    /\ halt.acked = 2
    /\ asyncQueue = <<>>

\* C17 as stated: on a channel left in blocking mode a call that found no
\* event queued does not return before an event or a poll() failure has
\* come: it never returns success on the event-free channel.
C17_BlockingCallWaitsForEvent ==
    (Returned /\ ~nonblock /\ Call.startLen = 0 /\ ~Call.arrivals) =>
        Call.ret < 0

\* ---------------------------------------------------------- two threads
Race ==
    /\ nonblock
    /\ \A t \in Threads :
          /\ pc[t] \in PaLabels
          /\ pa[t].ret = 1
          /\ pa[t].startLen = 1
          /\ ~pa[t].arrivals

\* C18: in non-blocking mode, when the calls of two threads both had
\* poll() report the one queued event, the event is read by one of them
\* only; neither waits at the read; and when both have returned, one has
\* read and acknowledged the event and returns its error, the other has
\* read and acknowledged nothing and returns the unavailable status, and
\* the event has one acknowledgment.
C18_RaceOneReaderOneUnavailable ==
    Race =>
        /\ pa["sup"].reads + pa["aux"].reads <= 1
        /\ \A t \in Threads : pc[t] = "pa_read" => ENABLED PaRead(t)
        /\ \A id \in EventIds : acks[id] <= 1
        /\ (\A t \in Threads : pc[t] = "pa_ret") =>
              \E w, l \in Threads :
                 /\ w # l
                 /\ pa[w].reads = 1
                 /\ pa[w].acked = 1
                 /\ pa[w].status = EventError(pa[w].event.type)
                 /\ acks[pa[w].event.id] = 1
                 /\ pa[l].reads = 0
                 /\ pa[l].acked = 0
                 /\ pa[l].event = NoEvent
                 /\ pa[l].status = UnavailableError

\* C18 witness: both calls have returned from the race, the auxiliary
\* thread with the event.
C18_Witness ==
    /\ Race
    /\ \A t \in Threads : pc[t] = "pa_ret"
    /\ pa["aux"].reads = 1
    /\ pa["sup"].caller = "top"

\* C19: HaltExecution reaches its return only from the test of a success
\* status; after any other status (a drained event, a failed poll(), a
\* read that found nothing) the loop polls again; and a failed poll() is
\* never a success, so a poll() that fails every time keeps the loop going.
C19_HaltReturnsOnlyOnSuccess ==
    /\ [](pc["sup"] = "h_test" =>
            /\ pa["sup"].status # NoStatus
            /\ pa["sup"].ret < 0 => pa["sup"].status # OkStatus
            /\ pa["sup"].status = OkStatus => pa["sup"].acked = 0)
    /\ [][/\ (pc["sup"] # "h_ret" /\ pc'["sup"] = "h_ret") =>
                (pc["sup"] = "h_test" /\ pa["sup"].status = OkStatus)
          /\ (pc["sup"] = "h_test" /\ pc'["sup"] # "h_test") =>
                pc'["sup"] = IF pa["sup"].status = OkStatus
                             THEN "h_ret" ELSE "h_poll"
         ]_vars

\* C19 witness: the loop is testing the unavailable status of a read that
\* lost the event to the other thread.
C19_Witness ==
    /\ pc["sup"] = "h_test"
    /\ pa["sup"].status = UnavailableError
    /\ asyncQueue = <<>>

C15_NonblockIffBothFlagCallsSucceed ==
    /\ [](proc # "unconstructed" =>
            /\ nonblock <=> (ctor.getfl = "ok" /\ ctor.setfl = "ok")
            /\ ctor.getfl # "ok" => ctor.setfl = "none"
            /\ ctor.open = "failed" =>
                  (proc = "aborted" /\ ctor.getfl = "none"))
    /\ [][/\ (proc = "unconstructed" /\ ctor'.open = "ok") => proc' = "running"
          /\ proc # "unconstructed" => (nonblock' = nonblock /\ ctor' = ctor)
         ]_vars

\* C15 witness: a fixture whose constructor set the non-blocking mode has
\* since made a batch of queue pairs, drained an event in HaltExecution and
\* is returning from NewPd, the mode still set.
C15_Witness ==
    /\ nonblock
    /\ ctor.setfl = "ok"
    /\ numQps["initiator"] > 0
    /\ \E id \in EventIds : acks[id] = 1
    /\ pc["sup"] = "np_ret"

====
